---------------------------- MODULE Spec2Model ----------------------------
(***************************************************************************)
(* A model of aiovmmanager: BaseSession (base.py) and its specialisations  *)
(* AuthSession, DnsProxySession, IpSession and VmSession (vm6.py).         *)
(*                                                                         *)
(* Text is modelled two ways.  Paths are TLA+ strings joined with \o, as   *)
(* the f-strings of the source join them.  The keys and values handed to   *)
(* urllib.parse.urlencode are sequences of atoms: an atom is one reserved  *)
(* character, or a run of unreserved characters (letters, digits, _.-~).   *)
(***************************************************************************)
EXTENDS Integers, Sequences, FiniteSets, TLC

VARIABLES
    self,        \* Session Configuration set by __init__: cls, definition, version
    _session,    \* the attribute self._session: Unset, None or a context
    contexts,    \* every aiohttp.ClientSession created so far, by creation order
    exits,       \* number of __aexit__ invocations so far
    aexit,       \* position of the running __aexit__, and the context it closes
    call,        \* the method invocation in progress, or the latest one finished
    params       \* query-encoding study: the params its caller hands to get()

vars == <<self, _session, contexts, exits, aexit, call, params>>

-----------------------------------------------------------------------------
(* Bounds of the model. *)

\* how many times __aenter__ is called on the one session instance
MaxContexts == 2
\* the attempts argument of get_token ranges over -NegAttempts .. MaxAttempts
MaxAttempts == 3
NegAttempts == 1
\* POSTs a single get_token call may issue before the model stops following it
\* beyond MaxAttempts (only a call with negative attempts gets that far)
ExtraPosts == 1
\* longest value, in atoms, of the params the caller hands to get() when the
\* query encoding is studied
MaxLen == 2

-----------------------------------------------------------------------------
(* urllib.parse.urlencode(params, safe="+'()"), base.py line 76. *)

RECURSIVE Join(_)
\* ''.join(parts)
Join(parts) == IF parts = <<>> THEN "" ELSE Head(parts) \o Join(Tail(parts))

\* the reserved characters the model draws from
Reserved == {" ", "&", "=", "/", "+", "'", "(", ")"}

\* runs of unreserved characters the model draws from
Words == {"where", "consul_id", "EQ", "7", "42", "a", "q"}

\* "%XX" of a character that quote() escapes
PercentCode(c) ==
    CASE c = " " -> "%20"
      [] c = "&" -> "%26"
      [] c = "=" -> "%3D"
      [] c = "/" -> "%2F"
      [] c = "+" -> "%2B"
      [] c = "'" -> "%27"
      [] c = "(" -> "%28"
      [] c = ")" -> "%29"

\* the safe argument get() passes, without the "+" (mutant of Safe)
SafeNoPlus == {"'", "(", ")"}

\* safe="+'()"
Safe == {"+", "'", "(", ")"}

\* quote(): unreserved characters and the safe ones stay, the rest become %XX
Quote(s, safe) ==
    [i \in 1..Len(s) |->
        IF s[i] \in Words \/ s[i] \in safe THEN s[i] ELSE PercentCode(s[i])]

\* quote_plus(): quote() with the space kept, then every space replaced by "+"
QuotePlus(s, safe) ==
    LET q == Quote(s, safe \cup {" "})
    IN  Join([i \in 1..Len(q) |-> IF q[i] = " " THEN "+" ELSE q[i]])

RECURSIVE JoinPairs(_)
\* '&'.join(l)
JoinPairs(l) ==
    IF l = <<>> THEN ""
    ELSE IF Len(l) = 1 THEN l[1]
    ELSE l[1] \o "&" \o JoinPairs(Tail(l))

\* urlencode(): k=v for every item in mapping order, joined by "&"
urlencode(m, safe) ==
    JoinPairs([i \in 1..Len(m) |->
        QuotePlus(m[i].k, safe) \o "=" \o QuotePlus(m[i].v, safe)])

-----------------------------------------------------------------------------
(* Session Configuration: __init__ of BaseSession and of its subclasses. *)

\* the constructors' defaults for definition and version; BaseSession has none,
\* the caller passes them
Sessions ==
    { [cls |-> "AuthSession",     definition |-> "auth",     version |-> "v4"],
      [cls |-> "DnsProxySession", definition |-> "dnsproxy", version |-> "v3"],
      [cls |-> "IpSession",       definition |-> "ip",       version |-> "v3"],
      [cls |-> "VmSession",       definition |-> "vm",       version |-> "v3"],
      [cls |-> "BaseSession",     definition |-> "api",      version |-> "v1"] }

\* the endpoint property with its leading slash lost (mutant of endpoint)
endpointNoSlash == self.definition \o "/" \o self.version

\* the endpoint property: f'/{self.definition}/{self.version}'
endpoint == "/" \o self.definition \o "/" \o self.version

\* str() of the integer ids the model formats into paths
IdStr(n) == CASE n = 7 -> "7" [] n = 42 -> "42"

\* the ids the caller passes
Ids == {7, 42}

-----------------------------------------------------------------------------
(* The attribute self._session and the aiohttp.ClientSession objects. *)

\* before the first __aenter__ the instance has no attribute _session
Unset == <<"unset">>

\* self._session = None
None == <<"None">>

\* self._session refers to the c-th ClientSession created
Ctx(c) == <<"ctx", c>>

IsCtx(s) == Len(s) = 2

\* a new aiohttp.ClientSession(base_url=self.url, **self._kwargs)
NewClientSession == [closed |-> FALSE, closes |-> 0]

\* ClientSession.close() that leaves the session open (mutant of Close)
CloseNothing(cs) == cs

\* ClientSession.close(): the session is closed; closes counts the close() calls
Close(cs) == [closed |-> TRUE, closes |-> cs.closes + 1]

\* the contexts that were created and are not closed
OpenContexts == {c \in 1..Len(contexts) : ~contexts[c].closed}

-----------------------------------------------------------------------------
(* Responses, Python values and exceptions. *)

B_err == "{\"error\":\"not found\"}"
B_list1 == "{\"list\": [{\"id\": 42}]}"
B_list0 == "{\"list\": []}"
B_html == "<html>suspended</html>"

\* response bodies the backend may send
Bodies == {B_err, B_list1, B_list0, B_html}

\* statuses the backend may answer with
Statuses == {200, 399, 400, 404, 503}

\* the reason phrase that comes with a status
Reason(status) ==
    CASE status = 200 -> "OK"
      [] status = 399 -> "Unassigned"
      [] status = 400 -> "Bad Request"
      [] status = 404 -> "Not Found"
      [] status = 503 -> "Service Unavailable"

\* Content-Type headers the backend may send
ContentTypes == {"application/json", "text/html"}

Responses ==
    { [status |-> st, reason |-> Reason(st), ctype |-> ct, body |-> b] :
        st \in Statuses, ct \in ContentTypes, b \in Bodies }

NoResponse == [status |-> 0, reason |-> "", ctype |-> "", body |-> ""]

\* Python values: a dict with its keys, its "id" and the ids of its "list"
Dict(keys, id, list) == [t |-> "dict", keys |-> keys, id |-> id, list |-> list]

\* the value None
PyNone == [t |-> "None", keys |-> {}, id |-> 0, list |-> <<>>]

\* no value: the call has not returned
NoValue == [t |-> "unset", keys |-> {}, id |-> 0, list |-> <<>>]

\* whether json.loads accepts the text
IsJson(text) == text \in {B_err, B_list1, B_list0}

\* json.loads(text)
JsonLoads(text) ==
    CASE text = B_err   -> Dict({"error"}, 0, <<>>)
      [] text = B_list1 -> Dict({"list"}, 0, <<42>>)
      [] text = B_list0 -> Dict({"list"}, 0, <<>>)

\* exceptions: the attributes aiohttp's ClientResponseError has (status, message,
\* headers); the other exception types leave them empty
Exc(type, status, message, headers) ==
    [type |-> type, status |-> status, message |-> message, headers |-> headers]

NoError == Exc("none", 0, "", "")

\* ContentTypeError is a subclass of ClientResponseError
IsClientResponseError(e) == e.type \in {"ClientResponseError", "ContentTypeError"}

\* raise_for_status() that lets a status of exactly 400 pass (mutant of
\* RaiseForStatus)
RaiseForStatusAbove400(resp) ==
    IF resp.status > 400
    THEN Exc("ClientResponseError", resp.status, resp.reason, resp.ctype)
    ELSE NoError

\* resp.raise_for_status(): status 400 or higher raises ClientResponseError with
\* the status, the reason as message and the headers; the body is not read
RaiseForStatus(resp) ==
    IF resp.status >= 400
    THEN Exc("ClientResponseError", resp.status, resp.reason, resp.ctype)
    ELSE NoError

\* await resp.json(content_type=content_type): with a content_type given, a
\* response of another Content-Type raises ContentTypeError; then json.loads
JsonError(resp, content_type) ==
    IF content_type # "None" /\ resp.ctype # content_type
    THEN Exc("ContentTypeError", resp.status,
             "Attempt to decode JSON with unexpected mimetype", resp.ctype)
    ELSE IF ~IsJson(resp.body)
    THEN Exc("JSONDecodeError", 0, "Expecting value", "")
    ELSE NoError

\* the exception that leaves "resp.raise_for_status(); return await resp.json()"
\* for this response, NoError when it returns
ResponseError(resp, content_type) ==
    IF RaiseForStatus(resp) # NoError THEN RaiseForStatus(resp)
    ELSE JsonError(resp, content_type)

-----------------------------------------------------------------------------
(* A method invocation, and the three primitives of BaseSession. *)

\* the record of an invocation of method op that has not run yet
NewCall(op, arg) ==
    [ op |-> op,                 \* the method called
      arg |-> arg,               \* its id argument as text, "" without one
      url |-> "",                \* the relative path handed to get/post/delete
      prm |-> <<>>,              \* the params handed to get
      verb |-> "",               \* HTTP method of the latest request
      path |-> "",               \* the url built for the latest request
      json |-> "none",           \* the json= argument of the latest request
      content_type |-> "application/json",
      sess |-> Unset,            \* self._session as the latest request read it
      sent |-> FALSE,            \* whether the latest request went out
      nreq |-> 0,                \* requests this call has issued
      pc |-> "idle",
      resp |-> NoResponse,       \* the latest response
      value |-> NoValue,         \* the value returned
      error |-> NoError,         \* the exception that left the call
      attempts |-> 0,            \* get_token: the attempts argument
      remaining |-> 0,           \* get_token: the local variable attempts
      remHist |-> <<>>,          \* get_token: the values attempts has taken
      delays |-> 0,              \* get_token: asyncio.sleep(1) calls
      fails |-> 0,               \* get_token: ClientResponseErrors caught
      exit_code |-> 0 ]          \* get_token: the argument of sys.exit

\* how an invocation leaves with exception e
Raise(c, e) == [c EXCEPT !.pc = "raised", !.error = e]

\* how an invocation returns v
Return(c, v) == [c EXCEPT !.pc = "returned", !.value = v]

\* self._session.<verb>(url=url, ssl=self.ssl, **kwargs): without the attribute,
\* or with None in it, AttributeError; on a closed ClientSession RuntimeError;
\* otherwise the request goes out and the call awaits the response
SessionRequest(c, verb, url, json, content_type) ==
    LET c1 == [c EXCEPT !.verb = verb, !.path = url, !.json = json,
                        !.content_type = content_type, !.sess = _session,
                        !.sent = FALSE]
    IN  IF _session = Unset
        THEN Raise(c1, Exc("AttributeError", 0, "no attribute '_session'", ""))
        ELSE IF _session = None
        THEN Raise(c1, Exc("AttributeError", 0, "'NoneType' object has no attribute", ""))
        ELSE IF contexts[_session[2]].closed
        THEN Raise(c1, Exc("RuntimeError", 0, "Session is closed", ""))
        ELSE [c1 EXCEPT !.sent = TRUE, !.nreq = @ + 1, !.pc = "awaiting"]

\* BaseSession.get up to its request
get(c, url, prm, content_type) ==
    LET query == urlencode(prm, Safe)
        url1 == endpoint \o url
        url2 == IF query # "" THEN url1 \o "?" \o query ELSE url1
    IN  SessionRequest([c EXCEPT !.url = url, !.prm = prm],
                       "GET", url2, "none", content_type)

\* BaseSession.post up to its request
post(c, url, json, content_type) ==
    SessionRequest([c EXCEPT !.url = url], "POST", endpoint \o url, json, content_type)

\* BaseSession.delete up to its request
delete(c, url, content_type) ==
    SessionRequest([c EXCEPT !.url = url], "DELETE", endpoint \o url, "none", content_type)

\* the rest of get/post/delete once the response is there:
\* resp.raise_for_status(); return await resp.json(content_type=content_type)
Primitive(c, resp) ==
    LET c1 == [c EXCEPT !.resp = resp]
        e == ResponseError(resp, c.content_type)
    IN  IF e # NoError THEN Raise(c1, e) ELSE Return(c1, JsonLoads(resp.body))

-----------------------------------------------------------------------------
(* AuthSession.get_token, vm6.py lines 56-71. *)

\* attempts -= 2 (mutant of Decrement)
DecrementTwice(a) == a - 2

\* attempts -= 1
Decrement(a) == a - 1

\* sys.exit(1)
ExitStatus == 1

\* "while attempts:" and the try body: with attempts 0 the loop is left and the
\* function ends without a return statement; otherwise POST /public/token
TokenLoop(c) ==
    IF c.remaining = 0
    THEN Return(c, PyNone)
    ELSE post(c, "/public/token", "credentials", "None")

\* the response of the POST inside get_token: a ClientResponseError is caught
\* and asyncio.sleep(1) starts; any other exception leaves get_token; a value is
\* returned
TokenResponse(c, resp) ==
    LET r == Primitive(c, resp)
    IN  IF r.pc = "raised" /\ IsClientResponseError(r.error)
        THEN [r EXCEPT !.pc = "sleeping", !.fails = @ + 1, !.delays = @ + 1]
        ELSE r

\* after the sleep, with the last error raised again where sys.exit(1) stands
\* (mutant of TokenWake)
TokenWakeReraise(c) ==
    LET a == Decrement(c.remaining)
        c1 == [c EXCEPT !.remaining = a, !.remHist = Append(@, a)]
    IN  IF a = 0 THEN Raise(c1, c.error) ELSE TokenLoop(c1)

\* after the sleep: attempts -= 1; without attempts left print and sys.exit(1),
\* else the loop goes round
TokenWake(c) ==
    LET a == Decrement(c.remaining)
        c1 == [c EXCEPT !.remaining = a, !.remHist = Append(@, a)]
    IN  IF a = 0
        THEN [c1 EXCEPT !.pc = "exited", !.exit_code = ExitStatus,
                        !.error = Exc("SystemExit", 0, "", "")]
        ELSE TokenLoop(c1)

\* response['list'][0] of get_task_by_consul_id
FirstOfList(c) ==
    IF c.pc # "returned" THEN c
    ELSE IF "list" \notin c.value.keys
    THEN [Raise(c, Exc("KeyError", 0, "list", "")) EXCEPT !.value = NoValue]
    ELSE IF c.value.list = <<>>
    THEN [Raise(c, Exc("IndexError", 0, "list index out of range", ""))
             EXCEPT !.value = NoValue]
    ELSE Return(c, Dict({"id"}, c.value.list[1], <<>>))

-----------------------------------------------------------------------------
(* The caller's inputs. *)

\* relative paths the caller hands to get, post and delete
RelPaths == {"/host", "/task/7"}

\* params the caller hands to get
GetParams ==
    { <<>>,
      <<[k |-> <<"where">>, v |-> <<"consul_id", "+", "EQ", "+", "7">>]>>,
      <<[k |-> <<"q">>, v |-> <<"a", " ", "a">>]>> }

\* the attempts argument of get_token
AttemptsRange == (0 - NegAttempts)..MaxAttempts

\* keys and values, as sequences of atoms, up to n atoms long
Strings(n) == UNION { [1..m -> Reserved \cup {"a"}] : m \in 0..n }

\* the params of the query-encoding study: no item, one item, or one item
\* followed by the item q=7
ParamSpace ==
    { <<>> }
    \cup { <<[k |-> k, v |-> v]>> : k \in Strings(1), v \in Strings(MaxLen) }
    \cup { <<[k |-> k, v |-> v], [k |-> <<"q">>, v |-> <<"7">>]>> :
              k \in Strings(1), v \in Strings(1) }

\* no invocation is in progress
NoCallRunning == call.pc \in {"idle", "returned", "raised", "exited"}

-----------------------------------------------------------------------------
(* Actions. *)

\* __aenter__: a new ClientSession replaces whatever self._session held
aenter ==
    /\ Len(contexts) < MaxContexts
    /\ contexts' = Append(contexts, NewClientSession)
    /\ _session' = Ctx(Len(contexts) + 1)
    /\ UNCHANGED <<self, exits, aexit, call, params>>

\* __aexit__ line 44: await self._session.close(); on None it raises
\* AttributeError and __aexit__ is over.  The caller exits at most as often as
\* it has entered.
aexit_close ==
    /\ aexit.pc = "idle"
    /\ exits < Len(contexts)
    /\ exits' = exits + 1
    /\ IF IsCtx(_session)
       THEN /\ contexts' = [contexts EXCEPT ![_session[2]] = Close(@)]
            /\ aexit' = [pc |-> "closing", ctx |-> _session[2], raised |-> FALSE]
       ELSE /\ contexts' = contexts
            /\ aexit' = [pc |-> "idle", ctx |-> aexit.ctx, raised |-> TRUE]
    /\ UNCHANGED <<self, _session, call, params>>

\* __aexit__ line 45: self._session = None
aexit_clear ==
    /\ aexit.pc = "closing"
    /\ _session' = None
    /\ aexit' = [aexit EXCEPT !.pc = "idle"]
    /\ UNCHANGED <<self, contexts, exits, call, params>>

\* the caller calls get(url, params), the params drawn from P
GetFrom(P) ==
    /\ NoCallRunning
    /\ \E url \in RelPaths, prm \in P :
          call' = get(NewCall("get", ""), url, prm, "application/json")
    /\ UNCHANGED <<self, _session, contexts, exits, aexit, params>>

\* the caller calls get(url, params)
Get ==
    /\ GetFrom(GetParams)

\* the caller calls post(url)
Post ==
    /\ NoCallRunning
    /\ \E url \in RelPaths :
          call' = post(NewCall("post", ""), url, "none", "application/json")
    /\ UNCHANGED <<self, _session, contexts, exits, aexit, params>>

\* the caller calls delete(url)
Delete ==
    /\ NoCallRunning
    /\ \E url \in RelPaths :
          call' = delete(NewCall("delete", ""), url, "application/json")
    /\ UNCHANGED <<self, _session, contexts, exits, aexit, params>>

\* AuthSession.get_key(email_or_id)
get_key ==
    /\ NoCallRunning
    /\ self.cls = "AuthSession"
    /\ \E id \in Ids :
          call' = post(NewCall("get_key", IdStr(id)),
                       "/user/" \o IdStr(id) \o "/key", "none", "application/json")
    /\ UNCHANGED <<self, _session, contexts, exits, aexit, params>>

\* AuthSession.get_token(email, password, attempts)
get_token ==
    /\ NoCallRunning
    /\ self.cls = "AuthSession"
    /\ \E n \in AttemptsRange :
          call' = TokenLoop([NewCall("get_token", "") EXCEPT
                                !.attempts = n, !.remaining = n, !.remHist = <<n>>])
    /\ UNCHANGED <<self, _session, contexts, exits, aexit, params>>

\* AuthSession.whoami()
whoami ==
    /\ NoCallRunning
    /\ self.cls = "AuthSession"
    /\ call' = get(NewCall("whoami", ""), "/whoami", <<>>, "application/json")
    /\ UNCHANGED <<self, _session, contexts, exits, aexit, params>>

\* VmSession.get_task(task_id)
get_task ==
    /\ NoCallRunning
    /\ self.cls = "VmSession"
    /\ \E id \in Ids :
          call' = get(NewCall("get_task", IdStr(id)), "/task/" \o IdStr(id), <<>>,
                      "application/json")
    /\ UNCHANGED <<self, _session, contexts, exits, aexit, params>>

\* VmSession.get_task_by_consul_id(consul_id)
get_task_by_consul_id ==
    /\ NoCallRunning
    /\ self.cls = "VmSession"
    /\ \E id \in Ids :
          call' = get(NewCall("get_task_by_consul_id", IdStr(id)), "/task",
                      <<[k |-> <<"where">>,
                         v |-> <<"consul_id", "+", "EQ", "+", IdStr(id)>>]>>,
                      "application/json")
    /\ UNCHANGED <<self, _session, contexts, exits, aexit, params>>

\* VmSession.host_create(host_params)
host_create ==
    /\ NoCallRunning
    /\ self.cls = "VmSession"
    /\ call' = post(NewCall("host_create", ""), "/host", "host_params",
                    "application/json")
    /\ UNCHANGED <<self, _session, contexts, exits, aexit, params>>

\* VmSession.host_delete(host_id)
host_delete ==
    /\ NoCallRunning
    /\ self.cls = "VmSession"
    /\ \E id \in Ids :
          call' = delete(NewCall("host_delete", IdStr(id)), "/host/" \o IdStr(id),
                         "application/json")
    /\ UNCHANGED <<self, _session, contexts, exits, aexit, params>>

\* VmSession.host_edit(host_id, host_params)
host_edit ==
    /\ NoCallRunning
    /\ self.cls = "VmSession"
    /\ \E id \in Ids :
          call' = post(NewCall("host_edit", IdStr(id)), "/host/" \o IdStr(id),
                       "host_params", "application/json")
    /\ UNCHANGED <<self, _session, contexts, exits, aexit, params>>

\* the backend answers the request in flight and the method runs on to its
\* return, its exception or, in get_token, its sleep
Response ==
    /\ call.pc = "awaiting"
    /\ ~contexts[call.sess[2]].closed
    /\ \E resp \in Responses :
          call' = CASE call.op = "get_token" -> TokenResponse(call, resp)
                    [] call.op = "get_task_by_consul_id" ->
                          FirstOfList(Primitive(call, resp))
                    [] OTHER -> Primitive(call, resp)
    /\ UNCHANGED <<self, _session, contexts, exits, aexit, params>>

\* the ClientSession was closed under the request in flight: the request ends
\* with a connection error, which is no ClientResponseError
ConnectionLost ==
    /\ call.pc = "awaiting"
    /\ contexts[call.sess[2]].closed
    /\ call' = Raise(call, Exc("ClientConnectionError", 0, "Connection closed", ""))
    /\ UNCHANGED <<self, _session, contexts, exits, aexit, params>>

\* asyncio.sleep(1) of get_token is over
get_token_wake ==
    /\ call.pc = "sleeping"
    /\ call.nreq < MaxAttempts + ExtraPosts
    /\ call' = TokenWake(call)
    /\ UNCHANGED <<self, _session, contexts, exits, aexit, params>>

Init ==
    /\ self \in Sessions
    /\ _session = Unset
    /\ contexts = <<>>
    /\ exits = 0
    /\ aexit = [pc |-> "idle", ctx |-> 0, raised |-> FALSE]
    /\ call = NewCall("none", "")
    /\ params = <<>>

Next ==
    \/ aenter
    \/ aexit_close
    \/ aexit_clear
    \/ Get
    \/ Post
    \/ Delete
    \/ get_key
    \/ get_token
    \/ whoami
    \/ get_task
    \/ get_task_by_consul_id
    \/ host_create
    \/ host_delete
    \/ host_edit
    \/ Response
    \/ ConnectionLost
    \/ get_token_wake

Spec == Init /\ [][Next]_vars

\* the caller calls get(url, params) with params of the query-encoding study
GetEncode ==
    /\ GetFrom({params})

\* the study's caller holds any params of ParamSpace
InitEncode ==
    /\ self \in Sessions
    /\ _session = Unset
    /\ contexts = <<>>
    /\ exits = 0
    /\ aexit = [pc |-> "idle", ctx |-> 0, raised |-> FALSE]
    /\ call = NewCall("none", "")
    /\ params \in ParamSpace

NextEncode ==
    \/ aenter
    \/ GetEncode

\* the query-encoding study: get(url, params) up to its request, on a session
\* before and after __aenter__
SpecEncode == InitEncode /\ [][NextEncode]_vars

-----------------------------------------------------------------------------
(* Properties of AuthSession.get_token. *)

\* the call on record is a get_token call
IsToken == call.op = "get_token"

\* n, n-1, ..., n-k
CountDown(n, k) == [i \in 1..(k + 1) |-> n - (i - 1)]

\* C1: a get_token call with attempts = n >= 1 that returns after k caught HTTP
\* status errors has k < n, issued exactly k+1 POSTs, slept exactly k times, its
\* counter went n, n-1, ..., n-k, and its value is the decoded body of the last
\* response, whose status is below 400; and a 2xx answer with a JSON body always
\* makes the call return.
TokenRetryThenSuccess ==
    (IsToken /\ call.attempts >= 1) =>
        /\ call.pc = "returned" =>
              /\ call.fails < call.attempts
              /\ call.nreq = call.fails + 1
              /\ call.delays = call.fails
              /\ call.remHist = CountDown(call.attempts, call.fails)
              /\ call.resp.status \in 200..399
              /\ IsJson(call.resp.body)
              /\ call.value = JsonLoads(call.resp.body)
        /\ (call.resp.status \in 200..299 /\ IsJson(call.resp.body)) =>
              call.pc = "returned"

\* C1 witness: attempts = 3, two failures, then the third POST's body returned
TokenRetryThenSuccessWitness ==
    /\ IsToken
    /\ call.attempts = 3
    /\ call.fails = 2
    /\ call.delays = 2
    /\ call.pc = "returned"
    /\ call.remHist = <<3, 2, 1>>

\* C2: a get_token call with attempts = n >= 1 whose POSTs all fail with an HTTP
\* status error issues exactly n POSTs and then ends in sys.exit with a non-zero
\* status: after the n-th failure it only sleeps and exits, it returns no value,
\* and no ClientResponseError ever leaves get_token.
TokenExhaustion ==
    (IsToken /\ call.attempts >= 1) =>
        /\ call.pc = "exited" =>
              /\ call.nreq = call.attempts
              /\ call.fails = call.attempts
              /\ call.exit_code # 0
              /\ call.value = NoValue
              /\ call.error.type = "SystemExit"
        /\ call.fails = call.attempts => call.pc \in {"sleeping", "exited"}
        /\ call.fails <= call.attempts
        /\ call.pc = "raised" => ~IsClientResponseError(call.error)

\* C2 witness: attempts = 2, both POSTs failed, the process exits
TokenExhaustionWitness ==
    /\ IsToken
    /\ call.attempts = 2
    /\ call.nreq = 2
    /\ call.pc = "exited"
    /\ call.resp.status = 503

TokenEndsSucceededOrExhausted ==
    IsToken =>
        /\ call.remHist[1] = call.attempts
        /\ call.pc = "returned" =>
              /\ call.nreq >= 1
              /\ call.resp.status \in 200..399
              /\ IsJson(call.resp.body)
              /\ call.value = JsonLoads(call.resp.body)
        /\ call.pc = "raised" => ~IsClientResponseError(call.error)

\* C9: for every integer attempts, get_token issues at most max(attempts, 0)
\* POSTs and its counter is never taken below zero.
TokenBoundedRetry ==
    IsToken =>
        /\ call.nreq <= (IF call.attempts > 0 THEN call.attempts ELSE 0)
        /\ call.remaining >= 0 \/ call.remaining = call.attempts

-----------------------------------------------------------------------------
(* Properties of __aenter__ and __aexit__. *)

NoLeakedContext ==
    /\ Cardinality({c \in OpenContexts : _session = Ctx(c)}) <= 1
    /\ (exits = Len(contexts) /\ aexit.pc = "idle") => OpenContexts = {}

-----------------------------------------------------------------------------
(* Properties of get, post and delete. *)

\* the call on record is a direct call of get, post or delete that got a response
PrimitiveAnswered ==
    call.op \in {"get", "post", "delete"} /\ call.resp # NoResponse

\* C4 as claimed: a status of 400 or more gives one request, no value and an
\* error carrying the status, the reason and the response body; a status in
\* [200,400), with a JSON body of the declared content type, gives the decoded
\* body.
PrimitiveErrorCarriesBody ==
    PrimitiveAnswered =>
        /\ call.nreq = 1
        /\ call.resp.status >= 400 =>
              /\ call.pc = "raised"
              /\ call.value = NoValue
              /\ call.error.status = call.resp.status
              /\ call.error.message = call.resp.reason
              /\ "body" \in DOMAIN call.error
              /\ call.error.body = call.resp.body
        /\ (/\ call.resp.status < 400
            /\ call.resp.ctype = call.content_type
            /\ IsJson(call.resp.body)) =>
              /\ call.pc = "returned"
              /\ call.value = JsonLoads(call.resp.body)

\* C4 as amended: a status of 400 or more gives one request, no value and a
\* ClientResponseError carrying the status, the reason and the headers, and not
\* the response body; a status in [200,400) with a JSON body of the declared
\* content type gives the decoded body.
PrimitiveStatusContract ==
    PrimitiveAnswered =>
        /\ call.nreq = 1
        /\ call.resp.status >= 400 =>
              /\ call.pc = "raised"
              /\ call.value = NoValue
              /\ call.error.type = "ClientResponseError"
              /\ call.error.status = call.resp.status
              /\ call.error.message = call.resp.reason
              /\ call.error.headers = call.resp.ctype
              /\ DOMAIN call.error = {"type", "status", "message", "headers"}
              /\ call.resp.body \notin {call.error.message, call.error.headers}
        /\ (/\ call.resp.status < 400
            /\ call.resp.ctype = call.content_type
            /\ IsJson(call.resp.body)) =>
              /\ call.pc = "returned"
              /\ call.value = JsonLoads(call.resp.body)

\* C4 witness: delete answered 404 with the body {"error":"not found"}
PrimitiveStatusContractWitness ==
    /\ call.op = "delete"
    /\ call.pc = "raised"
    /\ call.resp.status = 404
    /\ call.resp.body = B_err
    /\ call.error.status = 404

-----------------------------------------------------------------------------
(* Properties of the query string and of the request path. *)

\* the characters the specification wants left as they are
LiteralChars == {"+", "'", "(", ")"}

\* an atom as the claim encodes it (unreserved and + ' ( ) literal, the rest
\* %XX) or, amended, with the space turned into "+"
EncodedAtom(amended, a) ==
    IF amended /\ a = " " THEN "+"
    ELSE IF a \in Words \/ a \in LiteralChars THEN a
    ELSE PercentCode(a)

\* the query string of prm with every atom so encoded
QueryAs(amended, prm) ==
    JoinPairs([i \in 1..Len(prm) |->
        Join([j \in 1..Len(prm[i].k) |-> EncodedAtom(amended, prm[i].k[j])]) \o "="
        \o Join([j \in 1..Len(prm[i].v) |-> EncodedAtom(amended, prm[i].v[j])])])

ClaimedQuery(prm) == QueryAs(FALSE, prm)

AmendedQuery(prm) == QueryAs(TRUE, prm)

\* /{definition}/{version}{relative path}, then ?{query} for a query that is
\* not empty
PathWith(url, query) ==
    "/" \o self.definition \o "/" \o self.version \o url
    \o (IF query = "" THEN "" ELSE "?" \o query)

\* the strings that differ from s only by a space where s has "+" or a "+"
\* where s has a space
SpacePlusVariants(s) ==
    { [i \in 1..Len(s) |->
          IF i \in S THEN (IF s[i] = " " THEN "+" ELSE " ") ELSE s[i]] :
        S \in SUBSET {i \in 1..Len(s) : s[i] \in {" ", "+"}} }

\* the mappings that differ from prm only by space versus "+" in a value
ValueVariants(prm) ==
    { m \in [1..Len(prm) ->
                [k : {prm[i].k : i \in 1..Len(prm)},
                 v : UNION {SpacePlusVariants(prm[i].v) : i \in 1..Len(prm)}]] :
        \A i \in 1..Len(prm) :
            m[i].k = prm[i].k /\ m[i].v \in SpacePlusVariants(prm[i].v) }

\* C6 as claimed: + ' ( ) stay literal in keys and values, every other reserved
\* character, the space among them, is percent-encoded, and two mappings that
\* differ only by a space versus a "+" in a value give different query strings.
QueryEncodingAsClaimed ==
    (call.op = "get" /\ call.sent) =>
        /\ call.path = PathWith(call.url, ClaimedQuery(call.prm))
        /\ \A m \in ValueVariants(call.prm) \ {call.prm} :
              urlencode(m, Safe) # urlencode(call.prm, Safe)

\* C6 as amended: + ' ( ) stay literal in keys and values, a space becomes "+",
\* every other reserved character is percent-encoded, and two mappings that
\* differ only by a space versus a "+" in a value give the same query string.
QueryEncodingPlusForSpace ==
    (call.op = "get" /\ call.sent) =>
        /\ call.path = PathWith(call.url, AmendedQuery(call.prm))
        /\ \A m \in ValueVariants(call.prm) :
              PathWith(call.url, urlencode(m, Safe)) = call.path

\* C6 witness: a value holding a space and a "+" went out as "++"
QueryEncodingWitness ==
    /\ call.op = "get"
    /\ call.sent
    /\ self.cls = "VmSession"
    /\ call.prm = <<[k |-> <<"(">>, v |-> <<" ", "+">>]>>
    /\ call.path = "/vm/v3/host?(=++"

\* the path each method is to request
ExpectedPath ==
    CASE call.op = "get" -> PathWith(call.url, AmendedQuery(call.prm))
      [] call.op \in {"post", "delete"} -> PathWith(call.url, "")
      [] call.op = "get_key" -> "/auth/v4/user/" \o call.arg \o "/key"
      [] call.op = "get_token" -> "/auth/v4/public/token"
      [] call.op = "whoami" -> "/auth/v4/whoami"
      [] call.op = "get_task" -> "/vm/v3/task/" \o call.arg
      [] call.op = "get_task_by_consul_id" ->
            "/vm/v3/task?where=consul_id+EQ+" \o call.arg
      [] call.op = "host_create" -> "/vm/v3/host"
      [] call.op \in {"host_delete", "host_edit"} -> "/vm/v3/host/" \o call.arg

\* the HTTP method each method is to use
ExpectedVerb ==
    CASE call.op \in {"get", "whoami", "get_task", "get_task_by_consul_id"} -> "GET"
      [] call.op \in {"delete", "host_delete"} -> "DELETE"
      [] OTHER -> "POST"

\* C7: every request sent by get, post, delete and by every domain method has
\* the path /{definition}/{version}{relative path}, and get appends ?{query}
\* exactly when the encoded query string is not empty.
PathPrefixing ==
    call.nreq >= 1 =>
        /\ call.path = ExpectedPath
        /\ call.verb = ExpectedVerb
        /\ call.op = "get" =>
              (call.path = PathWith(call.url, "")) = (call.prm = <<>>)

\* C7 witness: get_task_by_consul_id(42) sent its filter under /vm/v3
PathPrefixingWitness ==
    /\ call.op = "get_task_by_consul_id"
    /\ call.sent
    /\ call.verb = "GET"
    /\ call.path = "/vm/v3/task?where=consul_id+EQ+42"

=============================================================================
